---- MODULE Spec2Model ----
(***************************************************************************)
(* Model of smart_silence_slicer.py: the segment builder                   *)
(* (calculate_segments), the timestamp pairing loop of detect_silences,    *)
(* the detector reader (_run_ffmpeg_and_get_times), the project document   *)
(* builder (create_mlt_file) and the pipeline driver (main).               *)
(*                                                                         *)
(* Times are integers counted in ticks (a fixed fraction of a second), so  *)
(* that sums and differences are exact.                                    *)
(***************************************************************************)
EXTENDS Integers, Sequences, FiniteSets, TLC

VARIABLES
    \* calculate_segments
    seg_pc,                 \* "call" before the call, "done" after it returned
    duration_secs,          \* argument duration_secs
    silences,               \* argument silences: a sequence of <<start, end>>
    min_segment_duration,   \* argument min_segment_duration
    segments,               \* the returned list of <<start, end>>
    \* the pairing loop of detect_silences (it builds the list silences)
    pair_pc,                \* position in the loop
    offset_times,           \* sorted silence starts of the first detector pass
    onset_times,            \* sorted silence ends of the second detector pass
    offsets_iter,           \* index of the element offsets_iter yields next
    onsets_iter,            \* index of the element onsets_iter yields next
    current_offset,         \* a time, or None
    current_onset,          \* a time, or None
    \* _run_ffmpeg_and_get_times: detector process, reader thread, polling loop
    to_write,               \* the lines the detector has still to write
    written,                \* the lines the detector wrote to stderr so far
    proc,                   \* "running" or "exited" (what process.poll() tells)
    stderr_open,            \* whether the detector still holds the write end of the pipe
    pipe,                   \* lines written to stderr and not yet read
    reader_pc,              \* reader_thread: "readline", "put" or "closed"
    reader_line,            \* the line reader_thread holds between readline and put
    q,                      \* the queue.Queue between reader thread and main loop
    run_pc,                 \* main thread: position in the polling loop
    times,                  \* the list times
    result,                 \* the returned list
    \* create_mlt_file
    mlt_pc,                 \* position in create_mlt_file
    video_data,             \* the list of work items (input_video, segments, video_info)
    unreadable,             \* positions of the items whose file cannot be read for hashing
    writable,               \* whether mlt_path can be opened for writing
    chain_idx,              \* the loop variable chain_idx
    header,                 \* profile and background track, built first
    chains,                 \* the chain elements built so far
    entries,                \* the playlist0 entries built so far
    xml_str,                \* the serialised document, in memory
    out_before,             \* what was at mlt_path when the call began
    out_file,               \* what is at mlt_path now
    opens,                  \* how often mlt_path was opened for writing
    \* main (it accumulates video_data)
    main_pc,                \* position in main
    video_files,            \* args.video_files: what each named file is like
    file_idx,               \* position of input_video in args.video_files
    main_silences,          \* the list silences of the current input
    video_info,             \* the dictionary video_info of the current input
    mlt_calls,              \* how often create_mlt_file was called
    exit_code,              \* None while running, else the exit status
    \* format_time
    fmt_pc,                 \* "call" before the call, "done" after it returned
    fmt_seconds,            \* argument seconds
    fmt_result              \* the returned string, a sequence of characters

seg_rest == <<seg_pc, duration_secs, min_segment_duration, segments>>

seg_vars == <<seg_rest, silences>>

pair_vars == <<pair_pc, offset_times, onset_times, offsets_iter, onsets_iter,
               current_offset, current_onset>>

run_vars == <<to_write, written, proc, stderr_open, pipe, reader_pc,
              reader_line, q, run_pc, times, result>>

mlt_vars == <<mlt_pc, video_data, unreadable, writable, chain_idx, header,
              chains, entries, xml_str, out_before, out_file, opens>>

mlt_rest == <<mlt_pc, unreadable, writable, chain_idx, header, chains, entries,
              xml_str, out_before, out_file, opens>>

main_vars == <<main_pc, video_files, file_idx, main_silences, video_info,
               mlt_calls, exit_code>>

fmt_vars == <<fmt_pc, fmt_seconds, fmt_result>>

vars == <<seg_vars, pair_vars, run_vars, mlt_vars, main_vars, fmt_vars>>

\* what the actions of one component leave unchanged
seg_others == <<pair_vars, run_vars, mlt_vars, main_vars, fmt_vars>>

pair_others == <<seg_rest, run_vars, mlt_vars, main_vars, fmt_vars>>

run_others == <<seg_vars, pair_vars, mlt_vars, main_vars, fmt_vars>>

mlt_others == <<seg_vars, pair_vars, run_vars, main_vars, fmt_vars>>

main_others == <<seg_vars, pair_vars, run_vars, mlt_rest, fmt_vars>>

fmt_others == <<seg_vars, pair_vars, run_vars, mlt_vars, main_vars>>

(***************************************************************************)
(* Bounds of the model.                                                    *)
(***************************************************************************)
MaxDur == 4        \* durations 1..MaxDur, silence endpoints 0..MaxDur+1
MaxSilences == 2   \* silence lists of up to MaxSilences intervals
MaxMin == 3        \* minimum segment durations 0..MaxMin
MaxTime == 3       \* detector event times 0..MaxTime
MaxEvents == 3     \* up to MaxEvents offsets and up to MaxEvents onsets
MaxLines == 2      \* the detector writes up to MaxLines lines
MaxVideos == 2     \* create_mlt_file gets 1..MaxVideos work items
MaxArgs == 3       \* main gets 1..MaxArgs input paths
MltDur == 3        \* the duration of each work item's video, in steps
MltStep == 3       \* ticks per step: cut points lie at multiples of MltStep
MaxFmtOffset == 5  \* format_time gets values up to MaxFmtOffset ticks off a landmark

(***************************************************************************)
(* Helpers on sequences.                                                   *)
(***************************************************************************)
Range(s) == {s[i] : i \in DOMAIN s}

SeqsUpTo(S, n) == UNION {[1..k -> S] : k \in 0..n}

Last(s) == s[Len(s)]

Front(s) == SubSeq(s, 1, Len(s) - 1)

SetMin(S) == CHOOSE x \in S : \A y \in S : x <= y

\* sorted(list(split_points)): the elements of a set in ascending order
RECURSIVE sorted(_)
sorted(S) == IF S = {} THEN <<>>
             ELSE LET m == SetMin(S) IN <<m>> \o sorted(S \ {m})

\* Python's None, where a time is expected (times are never negative)
None == -1

(***************************************************************************)
(* A component that a specification does not run stays idle.               *)
(***************************************************************************)
SegIdle ==
    /\ seg_pc = "idle"
    /\ duration_secs = 0
    /\ min_segment_duration = 0
    /\ segments = <<>>

PairIdle ==
    /\ pair_pc = "idle"
    /\ offset_times = <<>> /\ onset_times = <<>>
    /\ offsets_iter = 1 /\ onsets_iter = 1
    /\ current_offset = None /\ current_onset = None

RunIdle ==
    /\ run_pc = "idle" /\ reader_pc = "idle" /\ proc = "idle"
    /\ stderr_open = FALSE
    /\ to_write = <<>> /\ written = <<>> /\ pipe = <<>> /\ q = <<>>
    /\ reader_line = None /\ times = <<>> /\ result = <<>>

\* the document and the file at mlt_path, as records
NoHeader == [width |-> 0, height |-> 0, frame_rate_num |-> 0, frame_rate_den |-> 0,
             out |-> <<0, 0, 0, 0>>]

NoDoc == [header |-> NoHeader, chains |-> <<>>, entries |-> <<>>]

MltNotRunning ==
    /\ mlt_pc = "idle"
    /\ unreadable = {} /\ writable = TRUE
    /\ chain_idx = 0
    /\ header = NoHeader /\ chains = <<>> /\ entries = <<>>
    /\ xml_str = NoDoc
    /\ out_before = "absent"
    /\ out_file = [kind |-> "absent", doc |-> NoDoc]
    /\ opens = 0

MltIdle == MltNotRunning /\ video_data = <<>>

NoInfo == [duration |-> 0, frame_rate_num |-> 0, frame_rate_den |-> 0,
           width |-> 0, height |-> 0]

MainIdle ==
    /\ main_pc = "idle"
    /\ video_files = <<>>
    /\ file_idx = 0
    /\ main_silences = <<>>
    /\ video_info = NoInfo
    /\ mlt_calls = 0
    /\ exit_code = None

FmtIdle ==
    /\ fmt_pc = "idle"
    /\ fmt_seconds = 0
    /\ fmt_result = <<>>

(***************************************************************************)
(* calculate_segments                                                      *)
(***************************************************************************)
\* split_points = {0.0, duration_secs} plus every interval start and end
split_points(D, sil) ==
    {0, D} \cup {sil[i][1] : i \in DOMAIN sil} \cup {sil[i][2] : i \in DOMAIN sil}

\* mutants of KeepsPoint: a strict comparison; the minimum ignored
KeepsPointStrict(p, last, M) == p - last > M

KeepsPointNoMin(p, last, M) == p - last >= 0

\* a point is kept when it is at least M past the last kept point
KeepsPoint(p, last, M) == p - last >= M

\* the sweep over sorted_points[1:], from index i with kept list acc
RECURSIVE FilterFrom(_, _, _, _)
FilterFrom(pts, i, acc, M) ==
    IF i > Len(pts) THEN acc
    ELSE FilterFrom(pts, i + 1,
                    IF KeepsPoint(pts[i], Last(acc), M) THEN Append(acc, pts[i]) ELSE acc,
                    M)

filtered_points(pts, M) == FilterFrom(pts, 2, <<pts[1]>>, M)

\* drop the last kept point when it is closer than M to the duration
PopTail(fp, D, M) ==
    IF Len(fp) > 1 /\ D - Last(fp) < M THEN Front(fp) ELSE fp

\* force the duration in as the final point
AppendDuration(fp, D) ==
    IF Last(fp) # D THEN Append(fp, D) ELSE fp

\* segments from consecutive points, keeping only end > start
RECURSIVE SegmentsFrom(_, _)
SegmentsFrom(fp, i) ==
    IF i > Len(fp) - 1 THEN <<>>
    ELSE (IF fp[i + 1] > fp[i] THEN <<(<<fp[i], fp[i + 1]>>)>> ELSE <<>>)
         \o SegmentsFrom(fp, i + 1)

calculate_segments(D, sil, M) ==
    LET sorted_points == sorted(split_points(D, sil))
        fp == AppendDuration(PopTail(filtered_points(sorted_points, M), D, M), D)
    IN  SegmentsFrom(fp, 1)

(***************************************************************************)
(* Inputs of the segment builder: silence intervals have start < end and   *)
(* non-negative endpoints (the detector's pattern matches digits only),    *)
(* in any order, overlapping or not, inside or beyond the duration.        *)
(***************************************************************************)
Points == 0..(MaxDur + 1)

Intervals == {iv \in Points \X Points : iv[1] < iv[2]}

\* Scenario A and B of the specification, in ticks of 0.05 s
ScenarioA == [D |-> 200, sil |-> << <<20, 40>>, <<100, 120>> >>, M |-> 2]
ScenarioB == [D |-> 200, sil |-> << <<20, 21>> >>, M |-> 10]

SegInputs ==
    {[D |-> d, sil |-> s, M |-> m] :
        d \in 1..MaxDur, s \in SeqsUpTo(Intervals, MaxSilences), m \in 0..MaxMin}
    \cup {ScenarioA, ScenarioB}

SegInit ==
    /\ PairIdle /\ RunIdle /\ MltIdle /\ MainIdle /\ FmtIdle
    /\ seg_pc = "call"
    /\ \E inp \in SegInputs :
        /\ duration_secs = inp.D
        /\ silences = inp.sil
        /\ min_segment_duration = inp.M
    /\ segments = <<>>

CalculateSegments ==
    /\ seg_pc = "call"
    /\ segments' = calculate_segments(duration_secs, silences, min_segment_duration)
    /\ seg_pc' = "done"
    /\ UNCHANGED <<duration_secs, silences, min_segment_duration, seg_others>>

SegNext == CalculateSegments

SpecSeg == SegInit /\ [][SegNext]_vars

(***************************************************************************)
(* Properties of calculate_segments.                                       *)
(***************************************************************************)
SegDone == seg_pc = "done"

\* the interior cuts of a segment list: the end of every segment but the last
Cuts(segs) == {segs[i][2] : i \in 1..(Len(segs) - 1)}

IsPartition(segs, D, M) ==
    /\ Len(segs) >= 1
    /\ segs[1][1] = 0
    /\ \A i \in 1..(Len(segs) - 1) : segs[i][2] = segs[i + 1][1]
    /\ Last(segs)[2] = D
    /\ \A i \in DOMAIN segs : segs[i][1] < segs[i][2]
    /\ \A i \in 1..(Len(segs) - 1) : segs[i][2] - segs[i][1] >= M

\* C1: for every duration, every silence list (endpoints anywhere, also beyond
\* the duration) and every minimum M >= 0, the returned segments partition
\* [0, D]: first start 0, contiguous, last end D, start < end, and every
\* segment but the last at least M long.
C1_Partition ==
    SegDone => IsPartition(segments, duration_secs, min_segment_duration)

\* the precondition of C2: the silences are sorted, do not overlap, lie inside
\* [0, D], and every silence and every non-empty gap is at least M long
GapOk(g, M) == g = 0 \/ g >= M

WellSeparated(D, sil, M) ==
    /\ \A i \in DOMAIN sil :
        /\ 0 <= sil[i][1] /\ sil[i][2] <= D
        /\ sil[i][2] - sil[i][1] >= M
    /\ \A i \in 1..(Len(sil) - 1) : GapOk(sil[i + 1][1] - sil[i][2], M)
    /\ Len(sil) > 0 => GapOk(sil[1][1], M) /\ GapOk(D - Last(sil)[2], M)
    /\ Len(sil) = 0 => GapOk(D, M)

\* the non-empty gaps between the silences, in time order
RECURSIVE GapsFrom(_, _, _)
GapsFrom(D, sil, i) ==
    LET from == IF i = 1 THEN 0 ELSE sil[i - 1][2]
        to   == IF i > Len(sil) THEN D ELSE sil[i][1]
        gap  == IF from < to THEN <<(<<from, to>>)>> ELSE <<>>
    IN  IF i > Len(sil) THEN gap ELSE gap \o GapsFrom(D, sil, i + 1)

\* the non-empty gaps and the silences themselves, in time order
RECURSIVE PiecesFrom(_, _, _)
PiecesFrom(D, sil, i) ==
    LET from == IF i = 1 THEN 0 ELSE sil[i - 1][2]
        to   == IF i > Len(sil) THEN D ELSE sil[i][1]
        gap  == IF from < to THEN <<(<<from, to>>)>> ELSE <<>>
    IN  IF i > Len(sil) THEN gap
        ELSE gap \o <<sil[i]>> \o PiecesFrom(D, sil, i + 1)

\* C2 as stated: for well separated silences the result is exactly the list
\* of gaps between the silences (the silences are excluded); Scenario A
\* yields [(0,1),(2,5),(6,10)].
C2_ExcludesSilence ==
    (SegDone /\ WellSeparated(duration_secs, silences, min_segment_duration))
        => segments = GapsFrom(duration_secs, silences, 1)

\* C2 amended: for well separated silences the result holds every non-empty
\* gap and every silence interval as a segment, in time order; Scenario A
\* yields [(0,1),(1,2),(2,5),(5,6),(6,10)].
C2_GapsAndSilences ==
    /\ (SegDone /\ WellSeparated(duration_secs, silences, min_segment_duration))
          => segments = PiecesFrom(duration_secs, silences, 1)
    /\ (SegDone /\ duration_secs = ScenarioA.D /\ silences = ScenarioA.sil
               /\ min_segment_duration = ScenarioA.M)
          => segments = << <<0, 20>>, <<20, 40>>, <<40, 100>>, <<100, 120>>, <<120, 200>> >>

C2_Witness ==
    /\ SegDone
    /\ WellSeparated(duration_secs, silences, min_segment_duration)
    /\ Len(silences) = 2
    /\ min_segment_duration > 0
    /\ Len(segments) = 5

\* the silences shorter than the minimum segment duration
ShortSilences(sil, M) == {i \in DOMAIN sil : sil[i][2] - sil[i][1] < M}

\* an endpoint that no other silence interval has as an endpoint
OwnEndpoint(sil, i, p) ==
    \A j \in DOMAIN sil : j # i => p # sil[j][1] /\ p # sil[j][2]

\* every silence interval lies inside [0, D]
InsideDuration(D, sil) == \A i \in DOMAIN sil : sil[i][2] <= D

\* C4 as stated: a silence shorter than M causes no cut: neither of its
\* endpoints becomes a boundary between two segments; Scenario B yields
\* the single segment [(0,10)].  (Stated here for silences inside [0, D].)
C4_NoCut ==
    (SegDone /\ InsideDuration(duration_secs, silences)) =>
        \A i \in ShortSilences(silences, min_segment_duration) :
            \A k \in 1..2 :
                OwnEndpoint(silences, i, silences[i][k])
                    => silences[i][k] \notin Cuts(segments)

\* C4 amended: a silence shorter than M never gets a cut at both of its
\* endpoints (one of them can still become a cut); Scenario B yields
\* [(0,1),(1,10)].
C4_AtMostOneCut ==
    /\ SegDone =>
        \A i \in ShortSilences(silences, min_segment_duration) :
            ~(silences[i][1] \in Cuts(segments) /\ silences[i][2] \in Cuts(segments))
    /\ (SegDone /\ duration_secs = ScenarioB.D /\ silences = ScenarioB.sil
               /\ min_segment_duration = ScenarioB.M)
          => segments = << <<0, 20>>, <<20, 200>> >>

C4_Witness ==
    /\ SegDone
    /\ \E i \in ShortSilences(silences, min_segment_duration) :
        /\ OwnEndpoint(silences, i, silences[i][1])
        /\ silences[i][1] \in Cuts(segments)
        /\ silences[i][2] \notin Cuts(segments)

(***************************************************************************)
(* detect_silences: the loop that pairs offsets with onsets.  Both lists   *)
(* come out of sorted(times), so they are non-decreasing.                  *)
(***************************************************************************)
\* next(it, None) on an iterator over seq that stands at index i
next(seq, i) == IF i <= Len(seq) THEN seq[i] ELSE None

\* mutant of OnsetTooEarly: an onset equal to the offset closes the interval
OnsetTooEarlyStrict(onset, offset) == onset < offset

\* the inner loop conditions: an onset that cannot close the interval, and
\* an offset that the interval just emitted already covers
OnsetTooEarly(onset, offset) == onset <= offset

\* mutant of OffsetSubsumed: an offset equal to the onset opens the next interval
OffsetSubsumedStrict(offset, onset) == offset < onset

OffsetSubsumed(offset, onset) == offset <= onset

IsSorted(s) == \A i \in 1..(Len(s) - 1) : s[i] <= s[i + 1]

EventLists == {s \in SeqsUpTo(0..MaxTime, MaxEvents) : IsSorted(s)}

PairInit ==
    /\ SegIdle /\ RunIdle /\ MltIdle /\ MainIdle /\ FmtIdle
    /\ pair_pc = "start"
    /\ offset_times \in EventLists
    /\ onset_times \in EventLists
    /\ silences = <<>>
    /\ offsets_iter = 1 /\ onsets_iter = 1
    /\ current_offset = None /\ current_onset = None

\* lines 87-92: the first element of each list
PairStart ==
    /\ pair_pc = "start"
    /\ current_offset' = next(offset_times, offsets_iter)
    /\ offsets_iter' = offsets_iter + 1
    /\ current_onset' = next(onset_times, onsets_iter)
    /\ onsets_iter' = onsets_iter + 1
    /\ pair_pc' = "while"
    /\ UNCHANGED <<offset_times, onset_times, silences, pair_others>>

\* line 94: the outer loop condition
PairWhile ==
    /\ pair_pc = "while"
    /\ pair_pc' = IF current_offset # None /\ current_onset # None
                  THEN "skip_onsets" ELSE "done"
    /\ UNCHANGED <<offset_times, onset_times, offsets_iter, onsets_iter,
                   current_offset, current_onset, silences, pair_others>>

\* lines 96-97: one round of the loop that skips onsets
PairSkipOnset ==
    /\ pair_pc = "skip_onsets"
    /\ current_onset # None /\ OnsetTooEarly(current_onset, current_offset)
    /\ current_onset' = next(onset_times, onsets_iter)
    /\ onsets_iter' = onsets_iter + 1
    /\ UNCHANGED <<pair_pc, offset_times, onset_times, offsets_iter,
                   current_offset, silences, pair_others>>

\* lines 99-100: no onset is left, break
PairBreak ==
    /\ pair_pc = "skip_onsets"
    /\ current_onset = None
    /\ pair_pc' = "done"
    /\ UNCHANGED <<offset_times, onset_times, offsets_iter, onsets_iter,
                   current_offset, current_onset, silences, pair_others>>

\* line 103: a valid pair
PairAppend ==
    /\ pair_pc = "skip_onsets"
    /\ current_onset # None /\ ~OnsetTooEarly(current_onset, current_offset)
    /\ silences' = Append(silences, <<current_offset, current_onset>>)
    /\ pair_pc' = "skip_offsets"
    /\ UNCHANGED <<offset_times, onset_times, offsets_iter, onsets_iter,
                   current_offset, current_onset, pair_others>>

\* lines 106-107: one round of the loop that skips offsets
PairSkipOffset ==
    /\ pair_pc = "skip_offsets"
    /\ current_offset # None /\ OffsetSubsumed(current_offset, current_onset)
    /\ current_offset' = next(offset_times, offsets_iter)
    /\ offsets_iter' = offsets_iter + 1
    /\ UNCHANGED <<pair_pc, offset_times, onset_times, onsets_iter,
                   current_onset, silences, pair_others>>

\* the loop that skips offsets ends, back to line 94
PairAgain ==
    /\ pair_pc = "skip_offsets"
    /\ ~(current_offset # None /\ OffsetSubsumed(current_offset, current_onset))
    /\ pair_pc' = "while"
    /\ UNCHANGED <<offset_times, onset_times, offsets_iter, onsets_iter,
                   current_offset, current_onset, silences, pair_others>>

PairNext ==
    \/ PairStart
    \/ PairWhile
    \/ PairSkipOnset
    \/ PairBreak
    \/ PairAppend
    \/ PairSkipOffset
    \/ PairAgain

SpecPair == PairInit /\ [][PairNext]_vars

(***************************************************************************)
(* Properties of the pairing loop.                                         *)
(***************************************************************************)
\* C3: for non-decreasing offsets and onsets of any lengths, every interval
\* the pairing loop has built has start < end, and each interval ends no
\* later than the next one starts.
C3_OrderedDisjoint ==
    /\ \A i \in DOMAIN silences : silences[i][1] < silences[i][2]
    /\ \A i \in 1..(Len(silences) - 1) : silences[i][2] <= silences[i + 1][1]

C3_Witness ==
    /\ pair_pc = "done"
    /\ Len(silences) >= 2
    /\ Len(offset_times) # Len(onset_times)
    /\ \E i \in 1..(Len(offset_times) - 1) : offset_times[i] = offset_times[i + 1]

\* the times of a list that lie strictly after t
After(list, t) == {x \in Range(list) : x > t}

\* C13: over non-decreasing inputs, every interval built ends at the smallest
\* onset strictly after its start, the first interval starts at the first
\* offset, every later one at the smallest offset strictly after the end of
\* the one before, no offset and no onset is used twice, an interval is only
\* built while both streams have a current element, and the loop has ended
\* exactly because a stream ran out: nothing more could be paired, and empty
\* offsets or empty onsets give the empty list.
C13_NearestPairs ==
    /\ \A i \in DOMAIN silences :
          /\ After(onset_times, silences[i][1]) # {}
          /\ silences[i][2] = SetMin(After(onset_times, silences[i][1]))
    /\ silences # <<>> => silences[1][1] = offset_times[1]
    /\ \A i \in 2..Len(silences) :
          /\ After(offset_times, silences[i - 1][2]) # {}
          /\ silences[i][1] = SetMin(After(offset_times, silences[i - 1][2]))
    /\ \A i, j \in DOMAIN silences :
          i # j => silences[i][1] # silences[j][1] /\ silences[i][2] # silences[j][2]
    /\ Len(silences) <= Len(offset_times) /\ Len(silences) <= Len(onset_times)
    /\ pair_pc = "skip_onsets" => current_offset # None
    /\ pair_pc = "done" =>
          /\ current_offset = None \/ current_onset = None
          /\ offset_times = <<>> \/ onset_times = <<>> => silences = <<>>
          /\ IF silences = <<>>
             THEN offset_times = <<>> \/ After(onset_times, offset_times[1]) = {}
             ELSE LET rest == After(offset_times, Last(silences)[2])
                  IN  rest = {} \/ After(onset_times, SetMin(rest)) = {}

\* offsets 0,1,2 against onsets 1,1,3 and the like: two intervals, one
\* offset and one onset passed over
C13_Witness ==
    /\ pair_pc = "done"
    /\ Len(silences) = 2
    /\ Len(offset_times) = 3 /\ Len(onset_times) = 3
    /\ silences[2][1] # offset_times[2]
    /\ silences[1][2] = onset_times[1] /\ silences[2][2] = onset_times[3]

(***************************************************************************)
(* _run_ffmpeg_and_get_times: the detector process writes lines to its     *)
(* stderr pipe and exits; reader_thread moves each line from the pipe to   *)
(* the queue q; the main thread polls the process and the queue.  A line   *)
(* is the time the pattern captures from it, or None when the pattern      *)
(* does not match.                                                         *)
(***************************************************************************)
\* re.search(regex_pattern, line): the captured time, or None
match(line) == line

\* sorted(times) for a list: insertion into an ascending list
RECURSIVE Insert(_, _)
Insert(x, s) == IF s = <<>> THEN <<x>>
                ELSE IF x <= s[1] THEN <<x>> \o s
                ELSE <<s[1]>> \o Insert(x, Tail(s))

RECURSIVE sorted_list(_)
sorted_list(s) == IF s = <<>> THEN <<>>
                  ELSE Insert(s[1], sorted_list(Tail(s)))

\* the times of the matching lines of a list of lines, in order
RECURSIVE MatchedTimes(_)
MatchedTimes(lines) ==
    IF lines = <<>> THEN <<>>
    ELSE (IF match(lines[1]) # None THEN <<match(lines[1])>> ELSE <<>>)
         \o MatchedTimes(Tail(lines))

Lines == (0..MaxTime) \cup {None}

\* line 30-33: Popen, the queue, the reader thread started
RunInit ==
    /\ SegIdle /\ silences = <<>>
    /\ PairIdle /\ MltIdle /\ MainIdle /\ FmtIdle
    /\ to_write \in SeqsUpTo(Lines, MaxLines)
    /\ written = <<>>
    /\ proc = "running"
    /\ stderr_open = TRUE
    /\ pipe = <<>>
    /\ reader_pc = "readline"
    /\ reader_line = None
    /\ q = <<>>
    /\ run_pc = "poll"
    /\ times = <<>>
    /\ result = <<>>

\* the detector writes its next line to stderr
ProcWrite ==
    /\ proc = "running"
    /\ stderr_open
    /\ to_write # <<>>
    /\ pipe' = Append(pipe, to_write[1])
    /\ written' = Append(written, to_write[1])
    /\ to_write' = Tail(to_write)
    /\ UNCHANGED <<proc, stderr_open, reader_pc, reader_line, q, run_pc,
                   times, result, run_others>>

\* the detector closes its stderr and goes on running
ProcCloseStderr ==
    /\ proc = "running"
    /\ stderr_open
    /\ to_write = <<>>
    /\ stderr_open' = FALSE
    /\ UNCHANGED <<to_write, written, proc, pipe, reader_pc, reader_line, q,
                   run_pc, times, result, run_others>>

\* the detector exits, which closes the write end of the pipe
ProcExit ==
    /\ proc = "running"
    /\ to_write = <<>>
    /\ proc' = "exited"
    /\ stderr_open' = FALSE
    /\ UNCHANGED <<to_write, written, pipe, reader_pc, reader_line, q,
                   run_pc, times, result, run_others>>

\* line 21: pipe.readline() returns a line
ReaderReadline ==
    /\ reader_pc = "readline"
    /\ pipe # <<>>
    /\ reader_line' = pipe[1]
    /\ pipe' = Tail(pipe)
    /\ reader_pc' = "put"
    /\ UNCHANGED <<to_write, written, proc, stderr_open, q, run_pc, times,
                   result, run_others>>

\* line 22: q.put(line)
ReaderPut ==
    /\ reader_pc = "put"
    /\ q' = Append(q, reader_line)
    /\ reader_line' = None
    /\ reader_pc' = "readline"
    /\ UNCHANGED <<to_write, written, proc, stderr_open, pipe, run_pc, times,
                   result, run_others>>

\* line 21, 23-24: readline returns '' at end of file, the thread ends
ReaderEof ==
    /\ reader_pc = "readline"
    /\ pipe = <<>>
    /\ ~stderr_open
    /\ reader_pc' = "closed"
    /\ UNCHANGED <<to_write, written, proc, stderr_open, pipe, reader_line,
                   q, run_pc, times, result, run_others>>

\* mutant of LoopGoesOn: the loop goes on while the queue holds a line
LoopGoesOnQueueOnly(polled, qempty) == ~qempty

\* line 35: process.poll() is None or not q.empty()
LoopGoesOn(polled, qempty) == polled = "running" \/ ~qempty

\* line 35: the loop condition (poll, then q.empty() when the process exited)
MainPoll ==
    /\ run_pc = "poll"
    /\ run_pc' = IF LoopGoesOn(proc, q = <<>>) THEN "get" ELSE "join"
    /\ UNCHANGED <<to_write, written, proc, stderr_open, pipe, reader_pc,
                   reader_line, q, times, result, run_others>>

\* line 37-43: q.get returns a line; a matching line adds its time
MainGet ==
    /\ run_pc = "get"
    /\ q # <<>>
    /\ times' = IF match(q[1]) # None THEN Append(times, match(q[1])) ELSE times
    /\ q' = Tail(q)
    /\ run_pc' = "poll"
    /\ UNCHANGED <<to_write, written, proc, stderr_open, pipe, reader_pc,
                   reader_line, result, run_others>>

\* line 44-48: q.get times out on an empty queue (queue.Empty)
MainTimeout ==
    /\ run_pc = "get"
    /\ q = <<>>
    /\ run_pc' = "poll"
    /\ UNCHANGED <<to_write, written, proc, stderr_open, pipe, reader_pc,
                   reader_line, q, times, result, run_others>>

\* line 50-55: thread.join() returns once the reader ended; return sorted(times)
MainJoinReturn ==
    /\ run_pc = "join"
    /\ reader_pc = "closed"
    /\ result' = sorted_list(times)
    /\ run_pc' = "done"
    /\ UNCHANGED <<to_write, written, proc, stderr_open, pipe, reader_pc,
                   reader_line, q, times, run_others>>

RunNext ==
    \/ ProcWrite
    \/ ProcCloseStderr
    \/ ProcExit
    \/ ReaderReadline
    \/ ReaderPut
    \/ ReaderEof
    \/ MainPoll
    \/ MainGet
    \/ MainTimeout
    \/ MainJoinReturn

SpecRun == RunInit /\ [][RunNext]_vars

\* the steps of the reader thread and of the main thread
ReaderStep == ReaderReadline \/ ReaderPut \/ ReaderEof

MainStep == MainPoll \/ MainGet \/ MainTimeout \/ MainJoinReturn

\* Both threads are scheduled again and again; q.get(timeout=0.1) returns
\* after at most its timeout.  Nothing makes the detector write or exit.
SpecRunFair == SpecRun /\ WF_vars(ReaderStep) /\ WF_vars(MainStep)

(***************************************************************************)
(* Properties of _run_ffmpeg_and_get_times.                                *)
(***************************************************************************)
\* C7: whatever the interleaving of detector, reader thread and polling
\* loop, the returned list is the sorted list of the times of all matching
\* lines the detector wrote, and no enqueued line is left unread.
C7_AllLinesReturned ==
    run_pc = "done" => result = sorted_list(MatchedTimes(written))

\* C14: the function returns if and only if the detector terminates: it has
\* returned only when the process has exited (a process that never exits
\* keeps the polling loop going, whatever it does with its stderr), and
\* under fair scheduling of both threads, once the process has exited, the
\* reader reaches end of file, the polling loop ends, the join completes
\* and the function returns.
C14_ReturnsIffExits ==
    /\ [](run_pc = "done" => proc = "exited")
    /\ (proc = "exited") ~> (run_pc = "done")

\* returned after the detector wrote, closed its stderr early and exited
C14_Witness ==
    /\ run_pc = "done"
    /\ proc = "exited"
    /\ reader_pc = "closed"
    /\ times # <<>>

(***************************************************************************)
(* format_time.  In the document builder a time is a count of ticks of     *)
(* 1/TicksPerMilli millisecond; the timecode HH:MM:SS.mmm is the tuple of  *)
(* its four numbers.                                                       *)
(***************************************************************************)
TicksPerMilli == 2

TicksPerSecond == 1000 * TicksPerMilli

\* int(round(seconds * 1000)) with every tie going to the next higher integer
total_millis_half_up(seconds) ==
    (2 * seconds + TicksPerMilli) \div (2 * TicksPerMilli)

\* int(round(seconds * 1000)): Python rounds a tie to the even integer
total_millis(seconds) ==
    LET whole == seconds \div TicksPerMilli
        rest  == seconds % TicksPerMilli
    IN  IF 2 * rest < TicksPerMilli THEN whole
        ELSE IF 2 * rest > TicksPerMilli THEN whole + 1
        ELSE IF whole % 2 = 0 THEN whole ELSE whole + 1

\* format_time with the hours field kept to two digits (h % 100)
format_time_hours_wrap(seconds) ==
    LET tm == total_millis(seconds)
        total_seconds == tm \div 1000
    IN  <<(total_seconds \div 3600) % 100, (total_seconds % 3600) \div 60,
          total_seconds % 60, tm % 1000>>

format_time(seconds) ==
    LET tm == total_millis(seconds)
        millis == tm % 1000
        total_seconds == tm \div 1000
        h == total_seconds \div 3600
        m == (total_seconds % 3600) \div 60
        sec == total_seconds % 60
    IN  <<h, m, sec, millis>>

\* the characters of a decimal number
DigitChar == <<"0", "1", "2", "3", "4", "5", "6", "7", "8", "9">>

\* str(n) of a non-negative integer, as a sequence of characters
RECURSIVE decimal(_)
decimal(n) == IF n < 10 THEN <<DigitChar[n + 1]>>
              ELSE decimal(n \div 10) \o <<DigitChar[(n % 10) + 1]>>

\* the format specification {n:0<width>d}: zeros on the left up to the
\* width, and every digit of a number that is wider
zero_padded(n, width) ==
    LET d == decimal(n)
    IN  IF Len(d) >= width THEN d
        ELSE [i \in 1..(width - Len(d)) |-> "0"] \o d

\* f"{h:02d}:{m:02d}:{s:02d}.{millis:03d}"
timecode(fields) ==
    zero_padded(fields[1], 2) \o <<":">> \o zero_padded(fields[2], 2) \o <<":">>
        \o zero_padded(fields[3], 2) \o <<".">> \o zero_padded(fields[4], 3)

\* the arguments of the calls: values around the places where a field
\* carries into the next (a second, a minute, an hour, a hundred hours) and
\* around 3661.4995 seconds
Landmarks == {0, TicksPerSecond, 60 * TicksPerSecond, 3600 * TicksPerSecond,
              3661 * TicksPerSecond + 999, 360000 * TicksPerSecond}

FmtInputs ==
    {t \in UNION {{l - d, l + d} : l \in Landmarks, d \in 0..MaxFmtOffset} : t >= 0}

FmtInit ==
    /\ SegIdle /\ silences = <<>>
    /\ PairIdle /\ RunIdle /\ MltIdle /\ MainIdle
    /\ fmt_pc = "call"
    /\ fmt_seconds \in FmtInputs
    /\ fmt_result = <<>>

\* result = format_time(seconds)
FormatTime ==
    /\ fmt_pc = "call"
    /\ fmt_result' = timecode(format_time(fmt_seconds))
    /\ fmt_pc' = "done"
    /\ UNCHANGED <<fmt_seconds, fmt_others>>

FmtNext == FormatTime

SpecFmt == FmtInit /\ [][FmtNext]_vars

(***************************************************************************)
(* Properties of format_time.                                              *)
(***************************************************************************)
FmtDone == fmt_pc = "done"

Positions(str, c) == {i \in DOMAIN str : str[i] = c}

DigitValue(c) == CHOOSE d \in 0..9 : DigitChar[d + 1] = c

IsNumber(str) == str # <<>> /\ \A i \in DOMAIN str : str[i] \in Range(DigitChar)

RECURSIVE ParseInt(_)
ParseInt(str) == IF str = <<>> THEN 0
                 ELSE 10 * ParseInt(Front(str)) + DigitValue(Last(str))

\* the string has the shape HH:MM:SS.mmm, HH of two digits or more
WellFormed(str) ==
    /\ Cardinality(Positions(str, ":")) = 2
    /\ Cardinality(Positions(str, ".")) = 1
    /\ LET n == Len(str)
       IN  /\ n >= 12
           /\ str[n - 3] = "." /\ str[n - 6] = ":" /\ str[n - 9] = ":"
           /\ IsNumber(SubSeq(str, 1, n - 10))
           /\ IsNumber(SubSeq(str, n - 8, n - 7))
           /\ IsNumber(SubSeq(str, n - 5, n - 4))
           /\ IsNumber(SubSeq(str, n - 2, n))

\* the four numbers read back from a string split at its separators
Parsed(str) ==
    LET c1  == SetMin(Positions(str, ":"))
        c2  == SetMin(Positions(str, ":") \ {c1})
        dot == SetMin(Positions(str, "."))
    IN  [HH  |-> ParseInt(SubSeq(str, 1, c1 - 1)),
         MM  |-> ParseInt(SubSeq(str, c1 + 1, c2 - 1)),
         SS  |-> ParseInt(SubSeq(str, c2 + 1, dot - 1)),
         mmm |-> ParseInt(SubSeq(str, dot + 1, Len(str)))]

ReparsedMillis(str) ==
    LET p == Parsed(str) IN ((p.HH * 60 + p.MM) * 60 + p.SS) * 1000 + p.mmm

\* the nearest millisecond, a tie going to the next higher one
RoundHalfUp(seconds) == (2 * seconds + TicksPerMilli) \div (2 * TicksPerMilli)

\* C11: format_time rounds to the nearest millisecond with every tie going
\* up, and the rounded value carries into seconds, minutes and hours: the
\* string reads back as the half-up rounded millisecond count.
C11_TiesRoundUp ==
    FmtDone => /\ WellFormed(fmt_result)
               /\ ReparsedMillis(fmt_result) = RoundHalfUp(fmt_seconds)

\* twice the distance between a millisecond count and a time, in ticks
TwiceOff(ms, seconds) ==
    LET d == 2 * (ms * TicksPerMilli - seconds) IN IF d < 0 THEN -d ELSE d

\* C11, as the code has it: format_time rounds to the nearest millisecond,
\* never truncating, an exact half millisecond going to the even
\* millisecond (up or down), and the rounded value carries into seconds,
\* minutes and hours.
C11_TiesRoundEven ==
    FmtDone =>
        /\ WellFormed(fmt_result)
        /\ LET ms == ReparsedMillis(fmt_result)
           IN  /\ TwiceOff(ms, fmt_seconds) <= TicksPerMilli
               /\ TwiceOff(ms, fmt_seconds) = TicksPerMilli => ms % 2 = 0

\* 3661.4995 seconds, a tie, formats as 01:01:01.500
C11_Witness ==
    /\ FmtDone
    /\ fmt_seconds = 3661 * TicksPerSecond + 999
    /\ fmt_result = <<"0", "1", ":", "0", "1", ":", "0", "1", ".", "5", "0", "0">>

\* C12: the output reads back as the rounded total millisecond count that
\* format_time computed, minutes and seconds stay below 60 and milliseconds
\* below 1000, and the hours field grows past two digits without wrapping.
C12_RoundTrip ==
    FmtDone =>
        /\ WellFormed(fmt_result)
        /\ LET p == Parsed(fmt_result)
           IN  /\ ReparsedMillis(fmt_result) = total_millis(fmt_seconds)
               /\ p.MM < 60 /\ p.SS < 60 /\ p.mmm < 1000
               /\ p.HH = total_millis(fmt_seconds) \div 3600000

\* 359999.9995 seconds: the rounding carries through every field into a
\* three-digit hours field
C12_Witness ==
    /\ FmtDone
    /\ fmt_seconds = 360000 * TicksPerSecond - 1
    /\ fmt_result = <<"1", "0", "0", ":", "0", "0", ":", "0", "0", ".", "0", "0", "0">>

(***************************************************************************)
(* create_mlt_file                                                         *)
(***************************************************************************)
\* sum(end - start) over a segment list
RECURSIVE SumDurations(_)
SumDurations(segs) ==
    IF segs = <<>> THEN 0
    ELSE (segs[1][2] - segs[1][1]) + SumDurations(Tail(segs))

\* line 194: total_duration_secs over all items
RECURSIVE total_duration_secs(_)
total_duration_secs(vd) ==
    IF vd = <<>> THEN 0
    ELSE SumDurations(vd[1].segments) + total_duration_secs(Tail(vd))

\* line 256: frame_rate_den / frame_rate_num, in ticks
frame_duration(info) ==
    (info.frame_rate_den * TicksPerSecond) \div info.frame_rate_num

\* mutant of out_time: no clamp
out_time_unclamped(start, end, is_last, fd) ==
    IF is_last THEN end ELSE end - fd

\* lines 259-261: the out-point of a segment
out_time(start, end, is_last, fd) ==
    LET out == IF is_last THEN end ELSE end - fd
    IN  IF out < start THEN start ELSE out

\* mutant of entry_producer: every entry names the first chain
entry_producer_first(idx) == 0

\* lines 236 and 262: the chain of item chain_idx, f'chain{chain_idx}'
entry_producer(idx) == idx

\* lines 257-262: the entries of one item, in segment order
RECURSIVE EntriesFrom(_, _, _, _)
EntriesFrom(segs, i, idx, fd) ==
    IF i > Len(segs) THEN <<>>
    ELSE <<[producer |-> entry_producer(idx),
            in  |-> format_time(segs[i][1]),
            out |-> format_time(out_time(segs[i][1], segs[i][2], i = Len(segs), fd))]>>
         \o EntriesFrom(segs, i + 1, idx, fd)

\* lines 232-248: the chain element of one item
ChainOf(item, idx) ==
    [id |-> idx,
     out |-> format_time(item.video_info.duration),
     resource |-> item.input_video,
     hash |-> item.input_video]

(***************************************************************************)
(* Work items: the segments of an item come out of calculate_segments for  *)
(* the item's duration and one silence, and the frame rate is what the     *)
(* prober reported (0/0 included, which ffprobe reports for some streams): *)
(* a frame lasts 4 ticks at 500/1 and 2 ticks at 1000/1.                   *)
(***************************************************************************)
MltPoints == {p * MltStep : p \in 0..MltDur}

MltSilences == SeqsUpTo({iv \in MltPoints \X MltPoints : iv[1] < iv[2]}, 1)

FrameRates == {<<0, 0>>, <<500, 1>>, <<1000, 1>>}

MltItems(k) ==
    {[input_video |-> k,
      segments |-> calculate_segments(MltDur * MltStep, sil, 0),
      video_info |-> [duration |-> MltDur * MltStep, frame_rate_num |-> fr[1],
                      frame_rate_den |-> fr[2], width |-> 1920, height |-> 1080]] :
        sil \in MltSilences, fr \in FrameRates}

\* lists of n items; the k-th item names the k-th input file
RECURSIVE ItemLists(_)
ItemLists(n) ==
    IF n = 0 THEN {<<>>}
    ELSE {Append(l, it) : l \in ItemLists(n - 1), it \in MltItems(n)}

MltInit ==
    /\ SegIdle /\ silences = <<>>
    /\ PairIdle /\ RunIdle /\ MainIdle /\ FmtIdle
    /\ mlt_pc = "start"
    /\ video_data \in UNION {ItemLists(n) : n \in 1..MaxVideos}
    /\ unreadable \in {{}} \cup {{k} : k \in 1..Len(video_data)}
    /\ writable \in BOOLEAN
    /\ chain_idx = 0
    /\ header = NoHeader /\ chains = <<>> /\ entries = <<>>
    /\ xml_str = NoDoc
    /\ out_before \in {"absent", "old"}
    /\ out_file = [kind |-> out_before, doc |-> NoDoc]
    /\ opens = 0

\* lines 190-228: the early return, then profile, black producer, background
MltBegin ==
    /\ mlt_pc = "start"
    /\ IF video_data = <<>>
       THEN /\ mlt_pc' = "returned"
            /\ UNCHANGED header
       ELSE /\ mlt_pc' = "chains"
            /\ header' = [width |-> video_data[1].video_info.width,
                          height |-> video_data[1].video_info.height,
                          frame_rate_num |-> video_data[1].video_info.frame_rate_num,
                          frame_rate_den |-> video_data[1].video_info.frame_rate_den,
                          out |-> format_time(total_duration_secs(video_data))]
    /\ chain_idx' = 0
    /\ UNCHANGED <<video_data, unreadable, writable, chains, entries, xml_str,
                   out_before, out_file, opens, mlt_others>>

\* lines 231-248: one round of the chain loop
MltChain ==
    /\ mlt_pc = "chains"
    /\ chain_idx < Len(video_data)
    /\ (chain_idx + 1) \notin unreadable
    /\ chains' = Append(chains, ChainOf(video_data[chain_idx + 1], chain_idx))
    /\ chain_idx' = chain_idx + 1
    /\ UNCHANGED <<mlt_pc, video_data, unreadable, writable, header, entries,
                   xml_str, out_before, out_file, opens, mlt_others>>

\* line 233: generate_file_hash raises (the file cannot be read)
MltHashRaises ==
    /\ mlt_pc = "chains"
    /\ chain_idx < Len(video_data)
    /\ (chain_idx + 1) \in unreadable
    /\ mlt_pc' = "assembly_failed"
    /\ UNCHANGED <<video_data, unreadable, writable, chain_idx, header, chains,
                   entries, xml_str, out_before, out_file, opens, mlt_others>>

\* lines 250-252: the chain loop is over, the playlist element
MltPlaylist ==
    /\ mlt_pc = "chains"
    /\ chain_idx = Len(video_data)
    /\ mlt_pc' = "entries"
    /\ chain_idx' = 0
    /\ UNCHANGED <<video_data, unreadable, writable, header, chains, entries,
                   xml_str, out_before, out_file, opens, mlt_others>>

\* lines 255-262: one round of the entry loop, all segments of the item
MltEntries ==
    /\ mlt_pc = "entries"
    /\ chain_idx < Len(video_data)
    /\ video_data[chain_idx + 1].video_info.frame_rate_num # 0
    /\ entries' = entries \o
                  EntriesFrom(video_data[chain_idx + 1].segments, 1, chain_idx,
                              frame_duration(video_data[chain_idx + 1].video_info))
    /\ chain_idx' = chain_idx + 1
    /\ UNCHANGED <<mlt_pc, video_data, unreadable, writable, header, chains,
                   xml_str, out_before, out_file, opens, mlt_others>>

\* line 256: ZeroDivisionError for a frame rate of 0
MltZeroDivision ==
    /\ mlt_pc = "entries"
    /\ chain_idx < Len(video_data)
    /\ video_data[chain_idx + 1].video_info.frame_rate_num = 0
    /\ mlt_pc' = "assembly_failed"
    /\ UNCHANGED <<video_data, unreadable, writable, chain_idx, header, chains,
                   entries, xml_str, out_before, out_file, opens, mlt_others>>

\* lines 264-292: tractor, transitions, tostring and toprettyxml
MltSerialise ==
    /\ mlt_pc = "entries"
    /\ chain_idx = Len(video_data)
    /\ xml_str' = [header |-> header, chains |-> chains, entries |-> entries]
    /\ mlt_pc' = "open"
    /\ UNCHANGED <<video_data, unreadable, writable, chain_idx, header, chains,
                   entries, out_before, out_file, opens, mlt_others>>

\* mutant of CanOpen: the output is opened before the chains are built
CanOpenEarly(pc) == pc \in {"open", "chains"}

\* line 294 is reached after line 292 only
CanOpen(pc) == pc = "open"

\* line 294: open(mlt_path, 'w') creates or truncates the file
MltOpen ==
    /\ CanOpen(mlt_pc)
    /\ writable
    /\ out_file' = [kind |-> "truncated", doc |-> NoDoc]
    /\ opens' = opens + 1
    /\ mlt_pc' = "write"
    /\ UNCHANGED <<video_data, unreadable, writable, chain_idx, header, chains,
                   entries, xml_str, out_before, mlt_others>>

\* line 294: open raises (the path cannot be written)
MltOpenRaises ==
    /\ CanOpen(mlt_pc)
    /\ ~writable
    /\ mlt_pc' = "io_failed"
    /\ UNCHANGED <<video_data, unreadable, writable, chain_idx, header, chains,
                   entries, xml_str, out_before, out_file, opens, mlt_others>>

\* lines 295-297: f.write(pretty_xml_str), the file closed
MltWrite ==
    /\ mlt_pc = "write"
    /\ out_file' = [kind |-> "written", doc |-> xml_str]
    /\ mlt_pc' = "done"
    /\ UNCHANGED <<video_data, unreadable, writable, chain_idx, header, chains,
                   entries, xml_str, out_before, opens, mlt_others>>

MltNext ==
    \/ MltBegin
    \/ MltChain
    \/ MltHashRaises
    \/ MltPlaylist
    \/ MltEntries
    \/ MltZeroDivision
    \/ MltSerialise
    \/ MltOpen
    \/ MltOpenRaises
    \/ MltWrite

SpecMlt == MltInit /\ [][MltNext]_vars

(***************************************************************************)
(* Properties of create_mlt_file.                                          *)
(***************************************************************************)
\* the number of segments of the first k items
RECURSIVE SegmentsBefore(_, _)
SegmentsBefore(vd, k) ==
    IF k = 0 THEN 0 ELSE SegmentsBefore(vd, k - 1) + Len(vd[k].segments)

\* a timecode <<h, m, s, millis>> as milliseconds
Millis(tc) == ((tc[1] * 60 + tc[2]) * 60 + tc[3]) * 1000 + tc[4]

\* the document is assembled: line 292 is passed
Assembled == mlt_pc \in {"open", "write", "done", "io_failed"}

\* the entry of segment i of item k in a document
EntryOf(doc, k, i) == doc.entries[SegmentsBefore(video_data, k - 1) + i]

\* C5: the document holds one chain per item (chain k-1 for the k-th item)
\* and one playlist0 entry per segment, in item order and then segment
\* order, and each entry's producer is the chain of the item that owns the
\* segment.
C5_ChainsAndEntries ==
    Assembled =>
        /\ Len(xml_str.chains) = Len(video_data)
        /\ \A k \in DOMAIN video_data :
            /\ xml_str.chains[k].id = k - 1
            /\ xml_str.chains[k].resource = video_data[k].input_video
        /\ Len(xml_str.entries) = SegmentsBefore(video_data, Len(video_data))
        /\ \A k \in DOMAIN video_data :
            \A i \in DOMAIN video_data[k].segments :
                /\ EntryOf(xml_str, k, i).producer = xml_str.chains[k].id
                /\ EntryOf(xml_str, k, i).in
                       = format_time(video_data[k].segments[i][1])
        /\ \A n \in DOMAIN xml_str.entries :
            \E k \in DOMAIN xml_str.chains :
                xml_str.entries[n].producer = xml_str.chains[k].id

\* two items with two segments each: 2 chains, 4 entries v1.s1 v1.s2 v2.s1 v2.s2
C5_Witness ==
    /\ mlt_pc = "done"
    /\ Len(video_data) = 2
    /\ Len(video_data[1].segments) = 2 /\ Len(video_data[2].segments) = 2
    /\ Len(out_file.doc.chains) = 2
    /\ Len(out_file.doc.entries) = 4
    /\ out_file.doc.entries[2].producer = 0
    /\ out_file.doc.entries[3].producer = 1

\* what the claim says the out-point of a segment is
ClaimedOut(start, end, is_last, info) ==
    LET one_frame == (info.frame_rate_den * TicksPerSecond) \div info.frame_rate_num
    IN  IF is_last THEN end
        ELSE IF end - one_frame < start THEN start
        ELSE end - one_frame

\* C6: for every segment of every item the entry's in-point is the start;
\* the out-point is the end minus one frame of that item, but the exact end
\* for the item's last segment, and the start where the subtraction would
\* go below the start; every entry has in <= out.
C6_InOutPoints ==
    Assembled =>
        \A k \in DOMAIN video_data :
            \A i \in DOMAIN video_data[k].segments :
                LET seg == video_data[k].segments[i]
                    e == EntryOf(xml_str, k, i)
                IN  /\ e.in = format_time(seg[1])
                    /\ e.out = format_time(ClaimedOut(seg[1], seg[2],
                                   i = Len(video_data[k].segments),
                                   video_data[k].video_info))
                    /\ Millis(e.in) <= Millis(e.out)

\* an item with a clamped out-point, a trimmed one and an exact last one
C6_Witness ==
    /\ mlt_pc = "done"
    /\ \E k \in DOMAIN video_data :
        LET segs == video_data[k].segments
            fd == frame_duration(video_data[k].video_info)
        IN  /\ Len(segs) = 3
            /\ segs[1][2] - fd < segs[1][1]
            /\ EntryOf(out_file.doc, k, 1).out = format_time(segs[1][1])
            /\ EntryOf(out_file.doc, k, 3).out = format_time(segs[3][2])
    /\ \E k \in DOMAIN video_data :
        LET segs == video_data[k].segments
            fd == frame_duration(video_data[k].video_info)
        IN  /\ Len(segs) >= 2
            /\ segs[1][2] - fd > segs[1][1]
            /\ EntryOf(out_file.doc, k, 1).out = format_time(segs[1][2] - fd)

\* C10: mlt_path is opened only after the whole document, every item's
\* fingerprint included, is assembled in memory: while assembly runs and
\* after it failed the output path is exactly as it was; a successful call
\* opens the path once and leaves the document in it.
C10_WriteAfterAssembly ==
    /\ mlt_pc \in {"start", "chains", "entries", "open", "assembly_failed"}
         => /\ out_file = [kind |-> out_before, doc |-> NoDoc]
            /\ opens = 0
    /\ opens > 0
         => /\ Len(xml_str.chains) = Len(video_data)
            /\ \A k \in DOMAIN video_data : xml_str.chains[k].hash = video_data[k].input_video
            /\ Len(xml_str.entries) = SegmentsBefore(video_data, Len(video_data))
    /\ mlt_pc = "done"
         => /\ out_file = [kind |-> "written", doc |-> xml_str]
            /\ opens = 1

\* assembly failed after a chain was built, over an existing file
C10_Witness ==
    /\ mlt_pc = "assembly_failed"
    /\ Len(chains) >= 1
    /\ out_before = "old"
    /\ out_file.kind = "old"

(***************************************************************************)
(* main: one round of the loop per input path.  A named file exists or     *)
(* not; for a file that exists the detector and the prober each end        *)
(* normally or not.  Times are ticks, as in the document builder.          *)
(***************************************************************************)
default_min_duration_ms == 100

ToolEnds == {"ok", "abnormal"}

ProbeEnds == {"ok", "abnormal", "unparseable"}

Files ==
    {[exists |-> FALSE, detector |-> "none", prober |-> "none"]}
    \cup {[exists |-> TRUE, detector |-> d, prober |-> pr] :
             d \in ToolEnds, pr \in ProbeEnds}

\* what a detector run can leave as paired silences, whatever its exit
\* status (an abnormal exit leaves what was matched before it)
DetectedSilences == {<<>>, << <<400, 1200>> >>}

\* what a successful prober run reports
ProbedInfo == [duration |-> 2000, frame_rate_num |-> 25, frame_rate_den |-> 1,
               width |-> 1920, height |-> 1080]

\* mutant of file_found: the check of line 313 left out
file_found_always(f) == TRUE

\* line 313: os.path.exists(input_video)
file_found(f) == f.exists

MainInit ==
    /\ SegIdle /\ silences = <<>>
    /\ PairIdle /\ RunIdle /\ MltNotRunning /\ FmtIdle
    /\ main_pc = "loop"
    /\ video_files \in UNION {[1..n -> Files] : n \in 1..MaxArgs}
    /\ file_idx = 1
    /\ video_data = <<>>
    /\ main_silences = <<>>
    /\ video_info = NoInfo
    /\ mlt_calls = 0
    /\ exit_code = None

\* lines 312-315: the file is not found, reported, continue
MainSkipMissing ==
    /\ main_pc = "loop"
    /\ file_idx <= Len(video_files)
    /\ ~file_found(video_files[file_idx])
    /\ file_idx' = file_idx + 1
    /\ UNCHANGED <<main_pc, video_files, main_silences, video_info, mlt_calls,
                   exit_code, video_data, main_others>>

\* lines 312-318: the file is found; detect_silences returns a list, the
\* exit status of the detector is not looked at (Popen, line 30)
MainDetect ==
    /\ main_pc = "loop"
    /\ file_idx <= Len(video_files)
    /\ file_found(video_files[file_idx])
    /\ main_silences' \in DetectedSilences
    /\ main_pc' = "probe"
    /\ UNCHANGED <<video_files, file_idx, video_info, mlt_calls, exit_code,
                   video_data, main_others>>

\* lines 322, 124-138: the prober ends normally with output that parses
MainProbe ==
    /\ main_pc = "probe"
    /\ video_files[file_idx].prober = "ok"
    /\ video_info' = ProbedInfo
    /\ main_pc' = "segments"
    /\ UNCHANGED <<video_files, file_idx, main_silences, mlt_calls, exit_code,
                   video_data, main_others>>

\* lines 124-130: check=True raises CalledProcessError, or the parsing
\* raises; nothing in main catches it
MainProbeRaises ==
    /\ main_pc = "probe"
    /\ video_files[file_idx].prober # "ok"
    /\ main_pc' = "raised"
    /\ exit_code' = 1
    /\ UNCHANGED <<video_files, file_idx, main_silences, video_info, mlt_calls,
                   video_data, main_others>>

\* lines 324-325: the segments, the work item appended
MainAppend ==
    /\ main_pc = "segments"
    /\ video_data' = Append(video_data,
           [input_video |-> file_idx,
            segments |-> calculate_segments(video_info.duration, main_silences,
                             default_min_duration_ms * TicksPerMilli),
            video_info |-> video_info])
    /\ file_idx' = file_idx + 1
    /\ main_pc' = "loop"
    /\ UNCHANGED <<video_files, main_silences, video_info, mlt_calls, exit_code,
                   main_others>>

\* lines 327-329: no work item, sys.exit(1)
MainExit ==
    /\ main_pc = "loop"
    /\ file_idx > Len(video_files)
    /\ video_data = <<>>
    /\ main_pc' = "exited"
    /\ exit_code' = 1
    /\ UNCHANGED <<video_files, file_idx, main_silences, video_info, mlt_calls,
                   video_data, main_others>>

\* lines 331-336: create_mlt_file(video_data, output_mlt_path) is called
MainCreate ==
    /\ main_pc = "loop"
    /\ file_idx > Len(video_files)
    /\ video_data # <<>>
    /\ mlt_calls' = mlt_calls + 1
    /\ main_pc' = "created"
    /\ UNCHANGED <<video_files, file_idx, main_silences, video_info, exit_code,
                   video_data, main_others>>

MainNext ==
    \/ MainSkipMissing
    \/ MainDetect
    \/ MainProbe
    \/ MainProbeRaises
    \/ MainAppend
    \/ MainExit
    \/ MainCreate

SpecMain == MainInit /\ [][MainNext]_vars

(***************************************************************************)
(* Properties of main.                                                     *)
(***************************************************************************)
\* a tool ended abnormally, or with output that does not parse, on file f
ToolFailed(f) == f.exists /\ (f.detector # "ok" \/ f.prober # "ok")

\* the positions of the input paths of the work items, in list order
PathsOf(vd) == [k \in DOMAIN vd |-> vd[k].input_video]

\* the positions 1..n of the input paths that exist, in argument order
RECURSIVE ExistingUpTo(_, _)
ExistingUpTo(files, n) ==
    IF n = 0 THEN <<>>
    ELSE ExistingUpTo(files, n - 1) \o (IF files[n].exists THEN <<n>> ELSE <<>>)

MainEnded == main_pc \in {"exited", "raised", "created"}

\* C8: when the detector or the prober ends abnormally (or with output that
\* does not parse) for an input file, the failure is fatal for that file: it
\* is not masked as a successful result, and no work item for that file is
\* in the list that reaches create_mlt_file.
C8_ToolFailureIsFatal ==
    \A k \in DOMAIN video_data :
        ~ToolFailed(video_files[video_data[k].input_video])

\* C9 as stated: missing inputs are skipped, the work-item list holds the
\* existing inputs in argument order, and the run exits non-zero without a
\* document if and only if no input produced a work item; otherwise
\* create_mlt_file is called exactly once after all inputs.
C9_FailsOnlyWithoutItems ==
    /\ PathsOf(video_data) = ExistingUpTo(video_files, file_idx - 1)
    /\ MainEnded => ((exit_code = 1 /\ mlt_calls = 0) <=> video_data = <<>>)
    /\ MainEnded /\ video_data # <<>> => mlt_calls = 1

\* C9 amended: missing inputs are skipped and the others processed in
\* argument order, so the work-item list always holds the existing inputs
\* among those processed so far, in argument order; the run ends without
\* calling create_mlt_file if and only if no input produced a work item
\* (sys.exit(1)) or a prober failure raised out of main (also a non-zero
\* exit, even when earlier inputs produced work items); otherwise
\* create_mlt_file is called exactly once, after all inputs.
C9_SkipsMissingInputs ==
    /\ PathsOf(video_data) = ExistingUpTo(video_files, file_idx - 1)
    /\ MainEnded => (mlt_calls = 0 <=> (video_data = <<>> \/ main_pc = "raised"))
    /\ MainEnded /\ mlt_calls = 0 => exit_code = 1
    /\ main_pc = "raised" =>
        video_files[file_idx].exists /\ video_files[file_idx].prober # "ok"
    /\ main_pc = "exited" => file_idx = Len(video_files) + 1
    /\ mlt_calls <= 1
    /\ mlt_calls = 1 =>
        /\ main_pc = "created"
        /\ file_idx = Len(video_files) + 1
        /\ PathsOf(video_data) = ExistingUpTo(video_files, Len(video_files))

\* a missing input before two inputs that are processed, then one call
C9_Witness ==
    /\ main_pc = "created"
    /\ mlt_calls = 1
    /\ Len(video_files) = 3
    /\ ~video_files[1].exists
    /\ PathsOf(video_data) = <<2, 3>>

====
